---- MODULE Spec2Model ----
(***************************************************************************)
(* Model of the Rose program IR of src/rose/rose_build_program.h:          *)
(* the instruction classes, the RoseProgram container and its              *)
(* mutation operations, RoseProgramHash and RoseProgramEquivalence; and of *)
(* the 128-bit bit operations of src/util/arch/arm/simd_utils.h.           *)
(*                                                                         *)
(* Instructions live on a heap and are identified by their address (an     *)
(* id); targets are addresses.  A program is the vector `prog` of owning   *)
(* pointers; a moved-from std::unique_ptr is the null pointer.             *)
(***************************************************************************)
EXTENDS Integers, Sequences, FiniteSets, TLC

\* ---------------------------------------------------------------- bounds
MaxInstr == 4        \* number of heap addresses
MaxSize == 3         \* programs grow to at most this size()
MaxVal == 0          \* scalar payloads range over 0..MaxVal
MaxJumps == 1        \* longest jump table a caller builds
MaxKey == 1          \* keys and payloads of compared programs: 0..MaxKey
MaxBlob == 1         \* bytes the blob holds before the first program is assembled
MaxStride == 1       \* byte patterns of the 128-bit vectors a caller holds

\* The caller holds two RoseProgram objects.  Instructions are inserted into
\* and replaced in both; the second is the block that is spliced into the
\* first, destroyed once moved from, and constructed afresh.
Dest == 1
Block == 2
Progs == {Dest, Block}

Ids == 1..MaxInstr
Vals == 0..MaxVal
NULL == 0

\* ------------------------------------------------------- opcode catalogue
ROSE_INSTR_CHECK_BOUNDS == 4
ROSE_INSTR_REPORT == 27
ROSE_INSTR_SPARSE_ITER_BEGIN == 39
ROSE_INSTR_SPARSE_ITER_NEXT == 40
ROSE_INSTR_END == 45
FREED == 255         \* marks heap memory that holds no instruction

Opcodes ==
    {ROSE_INSTR_CHECK_BOUNDS, ROSE_INSTR_REPORT, ROSE_INSTR_SPARSE_ITER_BEGIN,
     ROSE_INSTR_SPARSE_ITER_NEXT, ROSE_INSTR_END}

\* ------------------------------------------------------ instruction values
\* One record shape for every opcode; a field an opcode does not have is 0.
Blank ==
    [code |-> FREED, onmatch |-> 0, offset_adjust |-> 0, min_bound |-> 0,
     max_bound |-> 0, num_keys |-> 0, state |-> 0, jump_table |-> << >>,
     target |-> NULL, begin |-> NULL,
     is_written |-> FALSE, iter_offset |-> 0, jump_table_offset |-> 0]

RoseInstrEnd == [Blank EXCEPT !.code = ROSE_INSTR_END]

RoseInstrReport(onmatch_in, offset_adjust_in) ==
    [Blank EXCEPT !.code = ROSE_INSTR_REPORT, !.onmatch = onmatch_in,
                  !.offset_adjust = offset_adjust_in]

RoseInstrCheckBounds(min, max, target_in) ==
    [Blank EXCEPT !.code = ROSE_INSTR_CHECK_BOUNDS, !.min_bound = min,
                  !.max_bound = max, !.target = target_in]

\* The constructor leaves jump_table empty; the caller fills the public
\* member before handing the instruction to a program.
RoseInstrSparseIterBegin(num_keys_in, jump_table_in, target_in) ==
    [Blank EXCEPT !.code = ROSE_INSTR_SPARSE_ITER_BEGIN,
                  !.num_keys = num_keys_in, !.jump_table = jump_table_in,
                  !.target = target_in]

RoseInstrSparseIterNext(state_in, begin_in, target_in) ==
    [Blank EXCEPT !.code = ROSE_INSTR_SPARSE_ITER_NEXT, !.state = state_in,
                  !.begin = begin_in, !.target = target_in]

\* --------------------------------------------------------------- state
VARIABLES
    heap,      \* address -> instruction stored there (Blank when free)
    prog,      \* program -> its vector of owning pointers
    aborted,   \* TRUE once an assert() has failed
    op,        \* the last operation called and its locals
    blob,      \* the RoseEngineBlob: the payloads appended so far
    bytecode   \* program -> the bytes writeProgram returned for it

vars == <<heap, prog, aborted, op, blob, bytecode>>

\* what the variables of the assembler are while nothing is assembled
NotAssembling == UNCHANGED <<blob, bytecode>>

NoOp == [name |-> "none", dest |-> 0, block |-> 0, pos |-> 0,
         old |-> NULL, new |-> NULL, noop |-> FALSE, arg |-> Blank,
         ret |-> NULL]

\* --------------------------------------------------------------- helpers
Range(s) == {s[i] : i \in 1..Len(s)}

FreeIds == {i \in Ids : heap[i].code = FREED}

\* operator new: the address of a block of free memory
Alloc == CHOOSE i \in FreeIds : \A j \in FreeIds : i <= j

\* position of instruction i in sequence s
IndexOf(s, i) == CHOOSE k \in 1..Len(s) : s[k] = i

Last(s) == s[Len(s)]
Front(s) == SubSeq(s, 1, Len(s) - 1)
\* mutant: the elements from pos on are put in front of the inserted ones
InsertAt_rotated(s, pos, t) == SubSeq(s, pos, Len(s)) \o t \o SubSeq(s, 1, pos - 1)

\* std::vector::insert(it, ...): t goes in before the element at pos
InsertAt(s, pos, t) == SubSeq(s, 1, pos - 1) \o t \o SubSeq(s, pos, Len(s))

\* A program object that exists and has not been moved from.
Usable(p) == Len(prog[p]) > 0 /\ \A i \in 1..Len(prog[p]) : prog[p][i] # NULL

\* A block handed over as RoseProgram&& is left moved-from; the caller does not
\* touch it again, so its destructor is taken to run before the next call.
Settled == \A q \in DOMAIN prog : prog[q] = << >> \/ Usable(q)

\* the instructions a program owns
Members(p) == Range(prog[p]) \ {NULL}

\* every pointer-valued field of an instruction
Targets(ri) ==
    IF ri.code = ROSE_INSTR_CHECK_BOUNDS THEN {ri.target}
    ELSE IF ri.code = ROSE_INSTR_SPARSE_ITER_BEGIN
        THEN {ri.target} \cup {ri.jump_table[k][2] : k \in 1..Len(ri.jump_table)}
    ELSE IF ri.code = ROSE_INSTR_SPARSE_ITER_NEXT THEN {ri.target, ri.begin}
    ELSE {}

\* ------------------------------------------------------------ update_target
\* mutant: the comparison with old_target is missing
OneTarget_update_target_always(ri, old_target, new_target) ==
    [ri EXCEPT !.target = new_target]

\* RoseInstrBaseOneTarget::update_target
OneTarget_update_target(ri, old_target, new_target) ==
    IF ri.target = old_target THEN [ri EXCEPT !.target = new_target] ELSE ri

\* RoseInstrBaseNoTargets::update_target
NoTargets_update_target(ri, old_target, new_target) == ri

\* mutant: the loop over jump_table is missing
SparseIterBegin_update_target_nojumps(ri, old_target, new_target) ==
    [ri EXCEPT !.target = IF @ = old_target THEN new_target ELSE @]

\* RoseInstrSparseIterBegin::update_target
SparseIterBegin_update_target(ri, old_target, new_target) ==
    [ri EXCEPT
        !.target = IF @ = old_target THEN new_target ELSE @,
        !.jump_table = [k \in 1..Len(@) |->
            IF @[k][2] = old_target THEN <<@[k][1], new_target>> ELSE @[k]]]

\* mutant: only the companion reference is compared with old_target
SparseIterNext_update_target_beginonly(ri, old_target, new_target) ==
    [ri EXCEPT !.begin = IF @ = old_target THEN new_target ELSE @]

\* RoseInstrSparseIterNext::update_target
SparseIterNext_update_target(ri, old_target, new_target) ==
    [ri EXCEPT
        !.target = IF @ = old_target THEN new_target ELSE @,
        !.begin = IF @ = old_target THEN new_target ELSE @]

\* the assert in RoseInstrSparseIterNext::update_target
SparseIterNext_assert(ri, old_target, new_code) ==
    ri.begin = old_target => new_code = ROSE_INSTR_SPARSE_ITER_BEGIN

\* virtual dispatch of RoseInstruction::update_target
update_target(ri, old_target, new_target) ==
    IF ri.code = ROSE_INSTR_CHECK_BOUNDS
        THEN OneTarget_update_target(ri, old_target, new_target)
    ELSE IF ri.code = ROSE_INSTR_SPARSE_ITER_BEGIN
        THEN SparseIterBegin_update_target(ri, old_target, new_target)
    ELSE IF ri.code = ROSE_INSTR_SPARSE_ITER_NEXT
        THEN SparseIterNext_update_target(ri, old_target, new_target)
    ELSE NoTargets_update_target(ri, old_target, new_target)

\* mutant: the sweep is skipped
update_targets_none(h, range, old_target, new_target) == h

\* RoseProgram::update_targets over the instructions `range` of heap h
update_targets(h, range, old_target, new_target) ==
    [i \in Ids |-> IF i \in range
                     THEN update_target(h[i], old_target, new_target)
                     ELSE h[i]]

\* TRUE when no assert fires during update_targets
update_targets_ok(h, range, old_target, new_target) ==
    /\ old_target # NULL /\ new_target # NULL /\ old_target # new_target
    /\ \A i \in range :
         h[i].code = ROSE_INSTR_SPARSE_ITER_NEXT
            => SparseIterNext_assert(h[i], old_target, h[new_target].code)

\* -------------------------------------------------- what a caller can build
JumpTables(tgts) ==
    {<< >>} \cup
    (IF MaxJumps >= 1 THEN {<<<<k, t>>>> : k \in Vals, t \in tgts} ELSE {}) \cup
    (IF MaxJumps >= 2
        THEN {<<<<0, t1>>, <<k, t2>>>> : k \in Vals \ {0}, t1 \in tgts, t2 \in tgts}
        ELSE {})

\* The instructions a caller hands to a program whose instructions are `tgts`
\* and whose end_instruction() is `end_inst`: every target points into the
\* program.  A SPARSE_ITER_BEGIN is built with end_inst as its fallback target
\* and jump-table entries anywhere into the program; the pointer to the
\* companion of a SPARSE_ITER_NEXT has the type RoseInstrSparseIterBegin *.
NewInstrs(h, tgts, end_inst) ==
    {RoseInstrEnd}
    \cup {RoseInstrReport(v, 0) : v \in Vals}
    \cup {RoseInstrCheckBounds(0, v, t) : v \in Vals, t \in tgts}
    \cup {RoseInstrSparseIterBegin(n, jt, end_inst) :
            n \in Vals, jt \in JumpTables(tgts)}
    \cup {RoseInstrSparseIterNext(0, b, t) :
            b \in {x \in tgts : h[x].code = ROSE_INSTR_SPARSE_ITER_BEGIN},
            t \in tgts}

\* ---------------------------------------------------------------- Init
\* RoseProgram(): prog.push_back(make_unique<RoseInstrEnd>())
Init ==
    /\ heap = [i \in Ids |-> IF i \in Progs THEN RoseInstrEnd ELSE Blank]
    /\ prog = [p \in Progs |-> <<p>>]
    /\ aborted = FALSE
    /\ op = NoOp
    /\ blob = << >>
    /\ bytecode = [p \in DOMAIN prog |-> << >>]

\* mutant: a program is never taken to be empty
empty_never(p) == FALSE

\* RoseProgram::empty()
empty(p) == Len(prog[p]) = 1

\* RoseProgram::size()
size(p) == Len(prog[p])

\* RoseProgram::end_instruction()
end_instruction(p) == Last(prog[p])

\* the assert(prog.back()->code() == ROSE_INSTR_END) that opens the mutators
back_is_end(h, s) == Len(s) > 0 /\ h[Last(s)].code = ROSE_INSTR_END


Called(name, p, b, pos, old, new, noop) ==
    [name |-> name, dest |-> p, block |-> b, pos |-> pos,
     old |-> old, new |-> new, noop |-> noop, arg |-> Blank, ret |-> NULL]

\* what the caller of a mutator of program p may pass
Built(p) ==
    IF Usable(p) THEN NewInstrs(heap, Members(p), Last(prog[p])) ELSE {}

\* mutant: the splice copies the pointers instead of moving them
moved_from_copy(s) == s

\* what std::make_move_iterator leaves of the vector s it was moved out of:
\* every std::unique_ptr is null, the vector keeps its length
moved_from(s) == [i \in 1..Len(s) |-> NULL]

\* mutant: prog.begin() is taken for std::prev(prog.end())
prev_end_begin(p) == 1

\* std::prev(prog.end()): the position of the last element of prog[p]
prev_end(p) == Len(prog[p])

\* the assert(it != end()) that opens insert
it_not_end(p, pos) == pos <= Len(prog[p])

\* ------------------------------------------- insert(iterator, unique_ptr)
\* `it` is the iterator to prog[p][pos], and end() when pos is size() + 1.
\* assert(it != end()) stops a build that has assert() enabled; a build with
\* NDEBUG goes on to prog.insert(end(), ...).  The model follows neither any
\* further.
insert(name, p, pos, ri) ==
    /\ NotAssembling
    /\ ~aborted /\ Settled /\ Usable(p)
    /\ pos \in 1..(Len(prog[p]) + 1)
    /\ FreeIds # {} /\ Len(prog[p]) < MaxSize
    /\ LET id == Alloc IN
        /\ heap' = [heap EXCEPT ![id] = ri]
        /\ prog' = [prog EXCEPT ![p] = InsertAt(@, pos, <<id>>)]
        /\ op' = [Called(name, p, 0, pos, NULL, id, FALSE) EXCEPT !.arg = ri]
    /\ aborted' = ~it_not_end(p, pos)

\* ------------------------------------------ insert(iterator, RoseProgram&&)
\* Called at end() with a block that is not empty, a build with NDEBUG reads
\* *end(): that call is not followed.
insert_block(name, p, pos, b) ==
    /\ NotAssembling
    /\ ~aborted /\ Settled /\ p # b /\ Usable(p) /\ Usable(b)
    /\ pos \in 1..(Len(prog[p]) + 1)
    /\ it_not_end(p, pos) \/ empty(b)
    /\ Len(prog[p]) + Len(prog[b]) - 1 <= MaxSize
    /\ IF empty(b)
         THEN /\ UNCHANGED <<heap, prog>>
              /\ op' = [Called(name, p, b, pos, NULL, NULL, TRUE)
                            EXCEPT !.ret = pos]            \* return it
         ELSE LET end_ptr == end_instruction(b)
                  rest == Front(prog[b])               \* block.prog.pop_back()
                  new_target == prog[p][pos]
                  h1 == [heap EXCEPT ![end_ptr] = Blank]
              IN /\ heap' = update_targets(h1, Range(rest), end_ptr, new_target)
                 /\ prog' = [prog EXCEPT ![p] = InsertAt(@, pos, rest),
                                         ![b] = moved_from(rest)]
                 /\ op' = [Called(name, p, b, pos, end_ptr, new_target, FALSE)
                            EXCEPT !.ret = pos]     \* prog.begin() + dist
    /\ aborted' = ~it_not_end(p, pos)

\* ------------------------------------------------------------- add_block
add_block(p, b) ==
    /\ NotAssembling
    /\ ~aborted /\ Settled /\ p # b /\ Usable(p) /\ Usable(b)
    /\ Len(prog[p]) + Len(prog[b]) - 1 <= MaxSize
    /\ IF empty(b)
         THEN /\ UNCHANGED <<heap, prog>>
              /\ op' = Called("add_block", p, b, 0, NULL, NULL, TRUE)
         ELSE LET end_ptr == end_instruction(p)
                  rest == Front(prog[p])                \* prog.pop_back()
                  new_target == prog[b][1]              \* block.prog.front()
                  h1 == [heap EXCEPT ![end_ptr] = Blank]
              IN /\ heap' = update_targets(h1, Range(rest), end_ptr, new_target)
                 /\ prog' = [prog EXCEPT ![p] = rest \o prog[b],
                                         ![b] = moved_from(prog[b])]
                 /\ op' = Called("add_block", p, b, 0, end_ptr, new_target, FALSE)
    /\ UNCHANGED aborted

\* --------------------------------------------------------------- replace
\* mutant: the new instruction is stored but no target is redirected
replace_heap_nosweep(p, pos, id, ri) ==
    [heap EXCEPT ![id] = ri, ![prog[p][pos]] = Blank]

\* The state replace() reaches when no assert stops it.
replace_heap(p, pos, id, ri) ==
    LET old_ptr == prog[p][pos]
        h1 == [heap EXCEPT ![id] = ri, ![old_ptr] = Blank]   \* *it = move(ri)
    IN update_targets(h1, Range([prog[p] EXCEPT ![pos] = id]), old_ptr, id)

replace_asserts(p, pos, id, ri) ==
    LET old_ptr == prog[p][pos]
        h1 == [heap EXCEPT ![id] = ri, ![old_ptr] = Blank]
        pr == [prog[p] EXCEPT ![pos] = id]
    IN /\ update_targets_ok(h1, Range(pr), old_ptr, id)
       /\ back_is_end(replace_heap(p, pos, id, ri), pr)

\* A failing assert stops a build that has assert() enabled; a build with
\* NDEBUG goes on with the state below.  The model follows neither any further.
replace(p, pos, ri) ==
    /\ NotAssembling
    /\ ~aborted /\ Settled /\ Usable(p)
    /\ pos \in 1..Len(prog[p])
    /\ FreeIds # {}
    /\ LET id == Alloc IN
        /\ heap' = replace_heap(p, pos, id, ri)
        /\ prog' = [prog EXCEPT ![p][pos] = id]
        /\ op' = [Called("replace", p, 0, pos, prog[p][pos], id, FALSE)
                    EXCEPT !.arg = ri]
        /\ aborted' = ~replace_asserts(p, pos, id, ri)

\* ------------------------------------------------- ~RoseProgram, RoseProgram
\* The caller drops program object b: the vector frees what it still owns.
destroy(b) ==
    /\ NotAssembling
    /\ ~aborted /\ prog[b] # << >>
    /\ heap' = [i \in Ids |-> IF i \in Members(b) THEN Blank ELSE heap[i]]
    /\ prog' = [prog EXCEPT ![b] = << >>]
    /\ op' = Called("destroy", b, 0, 0, NULL, NULL, FALSE)
    /\ UNCHANGED aborted

\* RoseProgram(): prog.push_back(make_unique<RoseInstrEnd>())
construct(b) ==
    /\ NotAssembling
    /\ ~aborted /\ Settled /\ prog[b] = << >>
    /\ FreeIds # {}
    /\ heap' = [heap EXCEPT ![Alloc] = RoseInstrEnd]
    /\ prog' = [prog EXCEPT ![b] = <<Alloc>>]
    /\ op' = Called("construct", b, 0, 0, NULL, NULL, FALSE)
    /\ UNCHANGED aborted

\* ----------------------------------------------------------------- Next
Insert == \E p \in Progs : \E pos \in 1..Len(prog[p]) :
    \E ri \in Built(p) : insert("insert", p, pos, ri)

InsertBlock == \E pos \in 1..Len(prog[Dest]) :
    insert_block("insert_block", Dest, pos, Block)

\* insert(end(), ri) and insert(end(), block)
InsertAtEnd ==
    \/ \E p \in Progs : \E ri \in Built(p) :
            insert("insert_at_end", p, Len(prog[p]) + 1, ri)
    \/ insert_block("insert_block_at_end", Dest, Len(prog[Dest]) + 1, Block)

\* add_before_end(unique_ptr): insert(std::prev(prog.end()), ri)
AddBeforeEnd == \E p \in Progs :
    \E ri \in Built(p) :
        insert("add_before_end", p, prev_end(p), ri)

\* add_before_end(RoseProgram&&)
AddBeforeEndBlock ==
    insert_block("add_before_end_block", Dest, prev_end(Dest), Block)

AddBlock == add_block(Dest, Block)

Replace == \E p \in Progs : \E pos \in 1..MaxInstr :
    \E ri \in Built(p) : replace(p, pos, ri)

Destroy == destroy(Block)

Construct == construct(Block)

Next ==
    \/ Insert
    \/ InsertBlock
    \/ InsertAtEnd
    \/ AddBeforeEnd
    \/ AddBeforeEndBlock
    \/ AddBlock
    \/ Replace
    \/ Destroy
    \/ Construct

Spec == Init /\ [][Next]_vars


\* ======================================================================
\* Hashing and equivalence
\* ======================================================================
\* size_t is 64 bits wide: a value is kept as four 16-bit limbs, least
\* significant first.
Limb == 65536

U64(n) == <<n % Limb, n \div Limb, 0, 0>>

Add64(a, b) ==
    LET s1 == a[1] + b[1]
        s2 == a[2] + b[2] + (s1 \div Limb)
        s3 == a[3] + b[3] + (s2 \div Limb)
        s4 == a[4] + b[4] + (s3 \div Limb)
    IN <<s1 % Limb, s2 % Limb, s3 % Limb, s4 % Limb>>

Shl6(a) ==
    [i \in 1..4 |-> ((a[i] * 64) % Limb) + (IF i > 1 THEN a[i - 1] \div 1024 ELSE 0)]

Shr2(a) ==
    [i \in 1..4 |-> (a[i] \div 4) + (IF i < 4 THEN (a[i + 1] % 4) * 16384 ELSE 0)]

RECURSIVE XorBits(_, _, _)
XorBits(x, y, n) ==
    IF n = 0 THEN 0
    ELSE ((x + y) % 2) + 2 * XorBits(x \div 2, y \div 2, n - 1)

\* exclusive or of two bytes, tabulated
XorByte == [x \in 0..255 |-> [y \in 0..255 |-> XorBits(x, y, 8)]]

Xor16(x, y) ==
    XorByte[x % 256][y % 256] + 256 * XorByte[x \div 256][y \div 256]

Xor64(a, b) == [i \in 1..4 |-> Xor16(a[i], b[i])]

\* 0x9e3779b9
HashMagic == <<31161, 40503, 0, 0>>

\* boost::hash_combine(seed, v): seed ^= v + 0x9e3779b9 + (seed<<6) + (seed>>2)
hash_combine(seed, v) ==
    Xor64(seed, Add64(Add64(Add64(v, HashMagic), Shl6(seed)), Shr2(seed)))

\* RoseInstrBaseTrivial::hash
Trivial_hash(ri) == U64(ri.code)

\* RoseInstrReport::hash
RoseInstrReport_hash(ri) ==
    hash_combine(hash_combine(U64(ri.code), U64(ri.onmatch)),
                 U64(ri.offset_adjust))

\* mutant: the target pointer is hashed as well
RoseInstrCheckBounds_hash_target(ri) ==
    hash_combine(hash_combine(hash_combine(U64(ri.code), U64(ri.min_bound)),
                              U64(ri.max_bound)), U64(ri.target))

\* RoseInstrCheckBounds::hash
RoseInstrCheckBounds_hash(ri) ==
    hash_combine(hash_combine(U64(ri.code), U64(ri.min_bound)),
                 U64(ri.max_bound))

\* mutant: the jump targets are hashed instead of the keys
RECURSIVE hash_jumps_second(_, _, _)
hash_jumps_second(v, jump_table, k) ==
    IF k > Len(jump_table) THEN v
    ELSE hash_jumps_second(hash_combine(v, U64(jump_table[k][2])),
                           jump_table, k + 1)

RECURSIVE hash_jumps(_, _, _)
hash_jumps(v, jump_table, k) ==
    IF k > Len(jump_table) THEN v
    ELSE hash_jumps(hash_combine(v, U64(jump_table[k][1])), jump_table, k + 1)

\* RoseInstrSparseIterBegin::hash
RoseInstrSparseIterBegin_hash(ri) ==
    hash_jumps(hash_combine(U64(ri.code), U64(ri.num_keys)), ri.jump_table, 1)

\* RoseInstrSparseIterNext::hash
RoseInstrSparseIterNext_hash(ri) == hash_combine(U64(ri.code), U64(ri.state))

\* virtual dispatch of RoseInstruction::hash
hash(ri) ==
    IF ri.code = ROSE_INSTR_REPORT THEN RoseInstrReport_hash(ri)
    ELSE IF ri.code = ROSE_INSTR_CHECK_BOUNDS THEN RoseInstrCheckBounds_hash(ri)
    ELSE IF ri.code = ROSE_INSTR_SPARSE_ITER_BEGIN
        THEN RoseInstrSparseIterBegin_hash(ri)
    ELSE IF ri.code = ROSE_INSTR_SPARSE_ITER_NEXT
        THEN RoseInstrSparseIterNext_hash(ri)
    ELSE Trivial_hash(ri)

RECURSIVE hash_program(_, _, _)
hash_program(v, s, k) ==
    IF k > Len(s) THEN v
    ELSE hash_program(hash_combine(v, hash(heap[s[k]])), s, k + 1)

\* RoseProgramHash::operator()
RoseProgramHash(p) == hash_program(U64(0), prog[p], 1)

\* ------------------------------------------------------------ layout
ROSE_INSTR_MIN_ALIGN == 8

\* sizeof of the packed record of an opcode
byte_length(code) ==
    IF code = ROSE_INSTR_END THEN 1
    ELSE IF code = ROSE_INSTR_REPORT THEN 12
    ELSE IF code = ROSE_INSTR_CHECK_BOUNDS THEN 32
    ELSE IF code = ROSE_INSTR_SPARSE_ITER_BEGIN THEN 16
    ELSE 20

ROUNDUP_N(n, a) == ((n + a - 1) \div a) * a

\* mutant: the running total is not aligned before a record is placed
RECURSIVE OffsetAt_packed(_, _)
OffsetAt_packed(s, k) ==
    IF k = 1 THEN 0
    ELSE OffsetAt_packed(s, k - 1) + byte_length(heap[s[k - 1]].code)

\* pass 1 of the assembler: offset of the k-th instruction of sequence s
RECURSIVE OffsetAt(_, _)
OffsetAt(s, k) ==
    IF k = 1 THEN 0
    ELSE ROUNDUP_N(OffsetAt(s, k - 1) + byte_length(heap[s[k - 1]].code),
                   ROSE_INSTR_MIN_ALIGN)

\* the OffsetMap of program p
makeOffsetMap(p) ==
    [i \in Members(p) |-> OffsetAt(prog[p], IndexOf(prog[p], i))]

\* OffsetMap::at; a key that is not in the map throws std::out_of_range
OUT_OF_RANGE == -1
at(offsets, t) == IF t \in DOMAIN offsets THEN offsets[t] ELSE OUT_OF_RANGE

\* ------------------------------------------------------------ equiv_to
\* RoseInstrReport::equiv_to
RoseInstrReport_equiv_to(a, ri, offsets, other_offsets) ==
    a.onmatch = ri.onmatch /\ a.offset_adjust = ri.offset_adjust

\* RoseInstrCheckBounds::equiv_to
RoseInstrCheckBounds_equiv_to(a, ri, offsets, other_offsets) ==
    /\ a.min_bound = ri.min_bound /\ a.max_bound = ri.max_bound
    /\ at(offsets, a.target) = at(other_offsets, ri.target)

\* mutant: a jump table shorter than the other's passes the size check
RoseInstrSparseIterBegin_equiv_to_shorter(a, ri, offsets, other_offsets) ==
    IF a.iter_offset # ri.iter_offset \/
       at(offsets, a.target) # at(other_offsets, ri.target) THEN FALSE
    ELSE IF Len(a.jump_table) > Len(ri.jump_table) THEN FALSE
    ELSE \A k \in 1..Len(a.jump_table) :
            /\ a.jump_table[k][1] = ri.jump_table[k][1]
            /\ at(offsets, a.jump_table[k][2]) =
               at(other_offsets, ri.jump_table[k][2])

\* RoseInstrSparseIterBegin::equiv_to
RoseInstrSparseIterBegin_equiv_to(a, ri, offsets, other_offsets) ==
    IF a.iter_offset # ri.iter_offset \/
       at(offsets, a.target) # at(other_offsets, ri.target) THEN FALSE
    ELSE IF Len(a.jump_table) # Len(ri.jump_table) THEN FALSE
    ELSE \A k \in 1..Len(a.jump_table) :
            /\ a.jump_table[k][1] = ri.jump_table[k][1]
            /\ at(offsets, a.jump_table[k][2]) =
               at(other_offsets, ri.jump_table[k][2])

\* RoseInstrSparseIterNext::equiv_to
RoseInstrSparseIterNext_equiv_to(a, ri, offsets, other_offsets) ==
    /\ a.state = ri.state
    /\ at(offsets, a.begin) = at(other_offsets, ri.begin)
    /\ at(offsets, a.target) = at(other_offsets, ri.target)

\* RoseInstrBaseTrivial::equiv_to
Trivial_equiv_to(a, ri, offsets, other_offsets) == TRUE

\* RoseInstruction::equiv -> RoseInstrBase::equiv_impl: the dynamic_cast of
\* `other` to the class of `this` fails when the opcodes differ
equiv(a, other, offsets, other_offsets) ==
    IF other.code # a.code THEN FALSE
    ELSE IF a.code = ROSE_INSTR_REPORT
        THEN RoseInstrReport_equiv_to(a, other, offsets, other_offsets)
    ELSE IF a.code = ROSE_INSTR_CHECK_BOUNDS
        THEN RoseInstrCheckBounds_equiv_to(a, other, offsets, other_offsets)
    ELSE IF a.code = ROSE_INSTR_SPARSE_ITER_BEGIN
        THEN RoseInstrSparseIterBegin_equiv_to(a, other, offsets, other_offsets)
    ELSE IF a.code = ROSE_INSTR_SPARSE_ITER_NEXT
        THEN RoseInstrSparseIterNext_equiv_to(a, other, offsets, other_offsets)
    ELSE Trivial_equiv_to(a, other, offsets, other_offsets)

\* mutant: the instruction counts are not compared
RoseProgramEquivalence_prefix(p, q) ==
    \A k \in 1..(IF size(p) < size(q) THEN size(p) ELSE size(q)) :
        equiv(heap[prog[p][k]], heap[prog[q][k]],
              makeOffsetMap(p), makeOffsetMap(q))

\* RoseProgramEquivalence::operator()
RoseProgramEquivalence(p, q) ==
    IF size(p) # size(q) THEN FALSE
    ELSE \A k \in 1..size(p) :
            equiv(heap[prog[p][k]], heap[prog[q][k]],
                  makeOffsetMap(p), makeOffsetMap(q))

\* ======================================================================
\* Second specification: two programs built by a caller are hashed and
\* compared, and their instructions retargeted
\* ======================================================================
Keys == 0..MaxKey

\* jump tables with keys, every target in tgts
KeyedJumpTables(tgts) ==
    {<< >>} \cup {<<<<k, t>>>> : k \in Keys, t \in tgts}

\* first instruction of a three-instruction program whose second
\* instruction is y and whose END is e
FirstInstrs(y, e) ==
    {RoseInstrReport(v, 0) : v \in Keys}
    \cup {RoseInstrCheckBounds(0, 0, t) : t \in {y, e}}
    \cup {RoseInstrSparseIterBegin(n, jt, e) :
            n \in Keys, jt \in KeyedJumpTables({y})}

\* second instruction, given the first instruction ri at address x
SecondInstrs(ri, x, e) ==
    {RoseInstrReport(0, 0)}
    \cup (IF ri.code = ROSE_INSTR_SPARSE_ITER_BEGIN
            THEN {RoseInstrSparseIterNext(0, x, e)} ELSE {})

InitEquiv ==
    /\ prog = [p \in Progs |-> IF p = Dest THEN <<1, 2, 3>> ELSE <<4, 5, 6>>]
    /\ \E x1 \in FirstInstrs(2, 3), x2 \in FirstInstrs(5, 6) :
         \E y1 \in SecondInstrs(x1, 1, 3), y2 \in SecondInstrs(x2, 4, 6) :
            heap = <<x1, y1, RoseInstrEnd, x2, y2, RoseInstrEnd>>
    /\ aborted = FALSE
    /\ op = NoOp
    /\ blob = << >>
    /\ bytecode = [p \in DOMAIN prog |-> << >>]

\* RoseProgramHash()(prog[p])
Hash ==
    \E p \in Progs :
        /\ NotAssembling
        /\ ~aborted
        /\ op' = [Called("hash", p, 0, 0, NULL, NULL, FALSE)
                    EXCEPT !.ret = RoseProgramHash(p)]
        /\ UNCHANGED <<heap, prog, aborted>>

\* RoseProgramEquivalence()(prog[Dest], prog[Block])
Equivalent ==
    /\ NotAssembling
    /\ ~aborted
    /\ op' = [Called("equivalent", Dest, Block, 0, NULL, NULL, FALSE)
                EXCEPT !.ret = RoseProgramEquivalence(Dest, Block)]
    /\ UNCHANGED <<heap, prog, aborted>>

\* prog[Dest][pos]->update_target(old_target, new_target)
UpdateTarget ==
    \E pos \in 1..Len(prog[Dest]) :
      \E old_target \in Members(Dest), new_target \in Members(Dest) :
        /\ NotAssembling
        /\ ~aborted
        /\ old_target # new_target
        /\ heap' = [heap EXCEPT ![prog[Dest][pos]] =
                        update_target(@, old_target, new_target)]
        /\ aborted' = (heap[prog[Dest][pos]].code = ROSE_INSTR_SPARSE_ITER_NEXT
                       /\ ~SparseIterNext_assert(heap[prog[Dest][pos]],
                                                 old_target,
                                                 heap[new_target].code))
        /\ op' = Called("update_target", Dest, 0, pos, old_target, new_target,
                        FALSE)
        /\ UNCHANGED prog

NextEquiv == Hash \/ Equivalent \/ UpdateTarget

SpecEquiv == InitEquiv /\ [][NextEquiv]_vars

\* ======================================================================
\* Assembler: writeProgram and the write() of each instruction
\* ======================================================================
\* v as n little-endian bytes
RECURSIVE LE(_, _)
LE(v, n) == IF n = 0 THEN << >> ELSE <<v % 256>> \o LE(v \div 256, n - 1)

Zeros(n) == [i \in 1..n |-> 0]

\* buf with the bytes of rec stored from byte offset off on
Put(buf, off, rec) ==
    [i \in 1..Len(buf) |->
        IF i > off /\ i <= off + Len(rec) THEN rec[i - off] ELSE buf[i]]

\* ------------------------------------------------------------ the blob
\* The blob is the sequence of the payloads appended to it; a payload starts
\* where the one before it ends.
BlobSize(bl) == IF bl = << >> THEN 0 ELSE Last(bl).off + Last(bl).len

blob_add(bl, kind, len, data) ==
    Append(bl, [kind |-> kind, off |-> BlobSize(bl), len |-> len, data |-> data])

\* bytes of the bit-vector over num_keys keys
IterSize(num_keys) == (num_keys + 7) \div 8

\* bytes of a jump table: a (u32 key_index, u32 program_offset) per entry
JumpTableSize(jump_table) == 8 * Len(jump_table)

\* ------------------------------------------------------------- records
\* RoseInstrBase::write: the record is zeroed and the opcode stored in its
\* first byte
RoseInstrBase_write(ri) == <<ri.code>> \o Zeros(byte_length(ri.code) - 1)

\* ROSE_STRUCT_REPORT: code, onmatch, offset_adjust
RoseInstrReport_write(ri) ==
    <<ri.code, 0, 0, 0>> \o LE(ri.onmatch, 4) \o LE(ri.offset_adjust, 4)

\* what a target slot of the record of instruction `from` holds for target
\* `to`: the absolute byte offset of `to` from the program base
target_slot(offset_map, from, to) == at(offset_map, to)

\* ROSE_STRUCT_CHECK_BOUNDS: code, min_bound, max_bound, fail_jump
RoseInstrCheckBounds_write(id, ri, offset_map) ==
    <<ri.code>> \o Zeros(7) \o LE(ri.min_bound, 8) \o LE(ri.max_bound, 8)
        \o LE(target_slot(offset_map, id, ri.target), 4) \o Zeros(4)

\* ROSE_STRUCT_SPARSE_ITER_BEGIN: code, iter_offset, jump_table, fail_jump
RoseInstrSparseIterBegin_write(id, ri, offset_map) ==
    <<ri.code, 0, 0, 0>> \o LE(ri.iter_offset, 4)
        \o LE(ri.jump_table_offset, 4)
        \o LE(target_slot(offset_map, id, ri.target), 4)

\* ROSE_STRUCT_SPARSE_ITER_NEXT: code, iter_offset, jump_table, state,
\* fail_jump; the two blob offsets are those its begin recorded
RoseInstrSparseIterNext_write(id, ri, begin_ri, offset_map) ==
    <<ri.code, 0, 0, 0>> \o LE(begin_ri.iter_offset, 4)
        \o LE(begin_ri.jump_table_offset, 4) \o LE(ri.state, 4)
        \o LE(target_slot(offset_map, id, ri.target), 4)

\* mutant: every SPARSE_ITER_NEXT appends the payloads of its begin again
next_shares_never(ri) == FALSE

\* a SPARSE_ITER_NEXT appends nothing to the blob: it shares what its begin
\* appended
next_shares(ri) == ri.code = ROSE_INSTR_SPARSE_ITER_NEXT

\* the jump table as the blob holds it: keys with program offsets
JumpOffsets(jump_table, offset_map) ==
    [k \in 1..Len(jump_table) |->
        <<jump_table[k][1], at(offset_map, jump_table[k][2])>>]

\* the blob after the iterator and the jump table of ri are appended
blob_add_iter(bl, ri, offset_map) ==
    blob_add(blob_add(bl, "iter", IterSize(ri.num_keys),
                      <<ri.num_keys, [k \in 1..Len(ri.jump_table) |->
                                            ri.jump_table[k][1]]>>),
             "jump", JumpTableSize(ri.jump_table),
             JumpOffsets(ri.jump_table, offset_map))

\* ri once write() has recorded where its payloads went, bl being the blob
\* before they were appended
Written(bl, ri) ==
    [ri EXCEPT !.is_written = TRUE,
               !.iter_offset = BlobSize(bl),
               !.jump_table_offset = BlobSize(bl) + IterSize(ri.num_keys)]

\* virtual dispatch of RoseInstruction::write for the instruction at id, in
\* heap h with blob bl: the heap, the blob and the record that result
write(h, bl, id, offset_map) ==
    LET ri == h[id] IN
    IF ri.code = ROSE_INSTR_SPARSE_ITER_BEGIN THEN
        [heap |-> [h EXCEPT ![id] = Written(bl, ri)],
         blob |-> blob_add_iter(bl, ri, offset_map),
         rec |-> RoseInstrSparseIterBegin_write(id, Written(bl, ri), offset_map)]
    ELSE IF ri.code = ROSE_INSTR_SPARSE_ITER_NEXT THEN
        [heap |-> h,
         blob |-> IF next_shares(ri) THEN bl
                  ELSE blob_add_iter(bl, h[ri.begin], offset_map),
         rec |-> RoseInstrSparseIterNext_write(id, ri, h[ri.begin], offset_map)]
    ELSE
        [heap |-> h, blob |-> bl,
         rec |-> IF ri.code = ROSE_INSTR_REPORT THEN RoseInstrReport_write(ri)
                 ELSE IF ri.code = ROSE_INSTR_CHECK_BOUNDS
                    THEN RoseInstrCheckBounds_write(id, ri, offset_map)
                 ELSE RoseInstrBase_write(ri)]

\* ------------------------------------------------------------ writeProgram
\* pass 1: the packed size of sequence s
total_len(s) ==
    ROUNDUP_N(OffsetAt(s, Len(s)) + byte_length(heap[Last(s)].code),
              ROSE_INSTR_MIN_ALIGN)

\* pass 2 from the k-th instruction of s on
RECURSIVE emit(_, _, _, _, _, _)
emit(h, bl, buf, s, k, offset_map) ==
    IF k > Len(s) THEN [heap |-> h, blob |-> bl, bytes |-> buf]
    ELSE LET w == write(h, bl, s[k], offset_map)
         IN emit(w.heap, w.blob, Put(buf, at(offset_map, s[k]), w.rec),
                 s, k + 1, offset_map)

writeProgram(bl, p) ==
    emit(heap, bl, Zeros(total_len(prog[p])), prog[p], 1, makeOffsetMap(p))

\* ======================================================================
\* Third specification: three programs built by a caller are compared with
\* one another while two of them are assembled against one blob
\* ======================================================================
Third == 3
Progs3 == {Dest, Block, Third}

\* first instruction of a three-instruction program whose second
\* instruction is y and whose END is e
WriteFirstInstrs(y, e) ==
    {RoseInstrReport(0, 0)}
    \cup {RoseInstrCheckBounds(0, 0, t) : t \in {y, e}}
    \cup {RoseInstrSparseIterBegin(n, jt, e) :
            n \in Keys, jt \in {<< >>, <<<<0, y>>>>}}

\* the blob the caller hands to writeProgram first: empty, or holding what
\* was written to it before
InitBlobs ==
    {IF n = 0 THEN << >>
     ELSE <<[kind |-> "other", off |-> 0, len |-> n, data |-> << >>]>> :
        n \in 0..MaxBlob}

InitWrite ==
    /\ prog = [p \in Progs3 |-> <<3 * p - 2, 3 * p - 1, 3 * p>>]
    /\ \E x1 \in WriteFirstInstrs(2, 3), x2 \in WriteFirstInstrs(5, 6),
          x3 \in WriteFirstInstrs(8, 9) :
         \E y1 \in SecondInstrs(x1, 1, 3), y2 \in SecondInstrs(x2, 4, 6),
            y3 \in SecondInstrs(x3, 7, 9) :
            heap = <<x1, y1, RoseInstrEnd, x2, y2, RoseInstrEnd,
                     x3, y3, RoseInstrEnd>>
    /\ aborted = FALSE
    /\ op = NoOp
    /\ blob \in InitBlobs
    /\ bytecode = [p \in Progs3 |-> << >>]

\* writeProgram(blob, prog[p]); a program is assembled once
Write ==
    \E p \in Progs :
        /\ ~aborted
        /\ bytecode[p] = << >>
        /\ LET w == writeProgram(blob, p) IN
            /\ heap' = w.heap
            /\ blob' = w.blob
            /\ bytecode' = [bytecode EXCEPT ![p] = w.bytes]
        /\ op' = [Called("write", p, 0, 0, NULL, NULL, FALSE)
                    EXCEPT !.ret = total_len(prog[p])]
        /\ UNCHANGED <<prog, aborted>>

\* the caller compares every program with every program
EquivalentAll ==
    /\ ~aborted
    /\ op' = [Called("equivalent_all", 0, 0, 0, NULL, NULL, FALSE)
                EXCEPT !.ret = [pq \in Progs3 \X Progs3 |->
                                    RoseProgramEquivalence(pq[1], pq[2])]]
    /\ UNCHANGED <<heap, prog, aborted>>
    /\ NotAssembling

NextWrite == Write \/ EquivalentAll

SpecWrite == InitWrite /\ [][NextWrite]_vars

\* ======================================================================
\* Properties of the container
\* ======================================================================
Splices == {"insert_block", "add_before_end_block", "add_block"}

\* ri with every pointer field equal to old pointing at new instead, and
\* nothing else changed: what "targets that referred to old now refer to new"
\* asks of one instruction
Redirected(ri, old, new) ==
    [code |-> ri.code, onmatch |-> ri.onmatch,
     offset_adjust |-> ri.offset_adjust, min_bound |-> ri.min_bound,
     max_bound |-> ri.max_bound, num_keys |-> ri.num_keys, state |-> ri.state,
     jump_table |-> [k \in 1..Len(ri.jump_table) |->
        <<ri.jump_table[k][1],
          IF ri.jump_table[k][2] = old THEN new ELSE ri.jump_table[k][2]>>],
     target |-> IF ri.target = old THEN new ELSE ri.target,
     begin |-> IF ri.begin = old THEN new ELSE ri.begin,
     is_written |-> ri.is_written, iter_offset |-> ri.iter_offset,
     jump_table_offset |-> ri.jump_table_offset]

\* C1: after any sequence of insert, add_before_end, add_block and replace
\* (none called at the end iterator) the last instruction of every program is
\* an END.
C1_EndInvariant ==
    \A p \in Progs : Usable(p) => heap[Last(prog[p])].code = ROSE_INSTR_END

\* C2: target closure: every target of every instruction a program contains
\* is an instruction the same program contains, never freed memory.
C2_TargetClosure ==
    \A p \in Progs : \A i \in Members(p) : \A t \in Targets(heap[i]) :
        t \in Members(p) /\ heap[t].code # FREED

\* add_block has redirected a target from the dropped END to the block
C2_Witness ==
    /\ op.name = "add_block" /\ ~op.noop
    /\ \E i \in Members(op.dest) :
        /\ op.new \in Targets(heap[i])
        /\ IndexOf(prog[op.dest], i) < IndexOf(prog[op.dest], op.new)

\* C3: no instruction of a program has a target field (jump-table entries
\* included) that refers to the instruction itself; stated for the programs
\* reached without a failed assert.
C3_NoSelfLoops ==
    ~aborted => \A p \in Progs : \A i \in Members(p) : i \notin Targets(heap[i])

\* C7: add_block with a non-empty block yields the old program without its
\* END followed by the whole block; targets of the old program at the old END
\* now refer to the block's first instruction, every other target is unchanged.
C7_AddBlock ==
    [][(op'.name = "add_block" /\ ~op'.noop) =>
        LET p == op'.dest
            b == op'.block
            n == Len(prog[p])
        IN /\ Len(prog'[p]) = n - 1 + Len(prog[b])
           /\ \A k \in 1..(n - 1) : prog'[p][k] = prog[p][k]
           /\ \A k \in 1..Len(prog[b]) : prog'[p][n - 1 + k] = prog[b][k]
           /\ Last(prog'[p]) = Last(prog[b])
           /\ \A k \in 1..(n - 1) :
                heap'[prog[p][k]] =
                    Redirected(heap[prog[p][k]], prog[p][n], prog[b][1])
           /\ \A k \in 1..Len(prog[b]) : heap'[prog[b][k]] = heap[prog[b][k]]
      ]_vars

\* add_block has acted on a program with a target at its END
C7_Witness ==
    /\ op.name = "add_block" /\ ~op.noop /\ ~aborted
    /\ \E i \in Members(op.dest) :
        /\ heap[i].target = op.new
        /\ IndexOf(prog[op.dest], i) < IndexOf(prog[op.dest], op.new)
    /\ heap[Last(prog[op.dest])].code = ROSE_INSTR_END

\* C8: insert(pos, block) with a non-empty block puts the block's instructions
\* except its END, in order, right before the instruction that was at pos;
\* targets inside them at the block's END now refer to that instruction; every
\* other target of the block and of the destination is unchanged.
C8_InsertBlock ==
    [][(op'.name = "insert_block" /\ ~op'.noop) =>
        LET p == op'.dest
            b == op'.block
            pos == op'.pos
            m == Len(prog[b]) - 1
        IN /\ Len(prog'[p]) = Len(prog[p]) + m
           /\ \A k \in 1..(pos - 1) : prog'[p][k] = prog[p][k]
           /\ \A k \in 1..m : prog'[p][pos - 1 + k] = prog[b][k]
           /\ \A k \in pos..Len(prog[p]) : prog'[p][k + m] = prog[p][k]
           /\ \A k \in 1..m :
                heap'[prog[b][k]] =
                    Redirected(heap[prog[b][k]], prog[b][m + 1], prog[p][pos])
           /\ \A k \in 1..Len(prog[p]) : heap'[prog[p][k]] = heap[prog[p][k]]
      ]_vars

\* insert(pos, block) has redirected a target of the block to its successor
C8_Witness ==
    /\ op.name = "insert_block" /\ ~op.noop
    /\ \E k \in op.pos..(op.pos + Len(prog[op.block]) - 1) :
        op.new \in Targets(heap[prog[op.dest][k]])
    /\ prog[op.dest][op.pos + Len(prog[op.block])] = op.new

\* C9: replace(pos, new) puts new at pos, keeps the size and every other
\* instruction where it was, and redirects every target at the old instruction
\* to new, leaving the other targets alone.
C9_Replace ==
    [][op'.name = "replace" =>
        LET p == op'.dest
            pos == op'.pos
            old == prog[p][pos]
            new == prog'[p][pos]
        IN /\ Len(prog'[p]) = Len(prog[p])
           /\ \A k \in 1..Len(prog[p]) : k # pos => prog'[p][k] = prog[p][k]
           /\ new # old /\ heap[new].code = FREED
           /\ heap'[new] = Redirected(op'.arg, old, new)
           /\ \A k \in 1..Len(prog[p]) : k # pos =>
                heap'[prog[p][k]] = Redirected(heap[prog[p][k]], old, new)
      ]_vars

\* replace has redirected a target of another instruction to the new one
C9_Witness ==
    /\ op.name = "replace" /\ ~aborted
    /\ \E i \in Members(op.dest) \ {op.new} : op.new \in Targets(heap[i])

\* C10: after a splice of a non-empty block the source block's element
\* sequence is empty.
C10_BlockEmptied ==
    (op.name \in Splices /\ ~op.noop) => prog[op.block] = << >>

\* ======================================================================
\* Properties of hashing and equivalence
\* ======================================================================
\* the two instructions agree on opcode and on every field that is not a
\* target
SameNonTargetFields(a, b) ==
    /\ a.code = b.code
    /\ a.onmatch = b.onmatch /\ a.offset_adjust = b.offset_adjust
    /\ a.min_bound = b.min_bound /\ a.max_bound = b.max_bound
    /\ a.num_keys = b.num_keys /\ a.state = b.state
    /\ Len(a.jump_table) = Len(b.jump_table)
    /\ \A k \in 1..Len(a.jump_table) : a.jump_table[k][1] = b.jump_table[k][1]

\* every target of a sits at the offset, in its program, at which the
\* corresponding target of b sits in the other program
SameTargetOffsets(a, b, offsets, other_offsets) ==
    /\ (a.target # NULL \/ b.target # NULL) =>
            at(offsets, a.target) = at(other_offsets, b.target)
    /\ (a.begin # NULL \/ b.begin # NULL) =>
            at(offsets, a.begin) = at(other_offsets, b.begin)
    /\ \A k \in 1..Len(a.jump_table) :
            k <= Len(b.jump_table) =>
                at(offsets, a.jump_table[k][2]) =
                at(other_offsets, b.jump_table[k][2])

\* C4: two programs that RoseProgramEquivalence reports equivalent have the
\* same RoseProgramHash digest, programs with SPARSE_ITER_BEGIN included.
C4_EquivalentSameHash ==
    RoseProgramEquivalence(Dest, Block) =>
        RoseProgramHash(Dest) = RoseProgramHash(Block)

\* C5: an instruction of one program is equivalent to an instruction of the
\* other exactly when the two have the same opcode, equal non-target fields
\* (num_keys and the jump-table keys of SPARSE_ITER_BEGIN among them) and
\* targets at equal offsets.
C5_InstrEquiv ==
    \A a \in Members(Dest), b \in Members(Block) :
        equiv(heap[a], heap[b], makeOffsetMap(Dest), makeOffsetMap(Block))
        <=> /\ SameNonTargetFields(heap[a], heap[b])
            /\ SameTargetOffsets(heap[a], heap[b], makeOffsetMap(Dest),
                                 makeOffsetMap(Block))

\* C6: hash() is a function of the opcode and the non-target fields alone:
\* instructions that agree on them hash alike whatever they target, so no
\* update_target call changes a hash.
C6_HashIgnoresTargets ==
    \A a \in Members(Dest) : \A b \in (Members(Dest) \cup Members(Block)) \ {a} :
        SameNonTargetFields(heap[a], heap[b]) => hash(heap[a]) = hash(heap[b])

\* update_target has just moved a target of a CHECK_BOUNDS or a
\* SPARSE_ITER_BEGIN of Dest away from where its counterpart in Block, with
\* the same non-target fields, still points
C6_Witness ==
    /\ op.name = "update_target"
    /\ ~aborted
    /\ op.old # op.new
    /\ op.new \in Targets(heap[prog[Dest][op.pos]])
    /\ SameNonTargetFields(heap[prog[Dest][1]], heap[prog[Block][1]])
    /\ heap[prog[Dest][1]].code \in
            {ROSE_INSTR_CHECK_BOUNDS, ROSE_INSTR_SPARSE_ITER_BEGIN}
    /\ op.pos = 1
    /\ IndexOf(prog[Dest], heap[prog[Dest][1]].target) #
       IndexOf(prog[Block], heap[prog[Block][1]].target)

\* ======================================================================
\* Further properties of the container
\* ======================================================================
\* C11: add_before_end puts its argument right before the terminating END,
\* as insert called at the position of that END does: the new instruction (or
\* the block's instructions except its END, in order) lands between the old
\* instructions and the END, the END stays the same instruction, and size()
\* grows by 1 (by the block's size() - 1).
C11_AddBeforeEnd ==
    [][/\ op'.name = "add_before_end" =>
            LET p == op'.dest IN
            /\ op'.pos = Len(prog[p])
            /\ prog'[p] = Front(prog[p]) \o <<op'.new>> \o <<Last(prog[p])>>
            /\ Len(prog'[p]) = size(p) + 1
            /\ heap'[op'.new] = op'.arg
            /\ \A i \in Members(p) : heap'[i] = heap[i]
       /\ (op'.name = "add_before_end_block" /\ ~op'.noop) =>
            LET p == op'.dest
                b == op'.block
            IN
            /\ op'.pos = Len(prog[p])
            /\ prog'[p] = Front(prog[p]) \o Front(prog[b]) \o <<Last(prog[p])>>
            /\ Len(prog'[p]) = size(p) + size(b) - 1
            /\ \A i \in Members(p) : heap'[i] = heap[i]
            /\ \A i \in Range(Front(prog[b])) :
                heap'[i] = Redirected(heap[i], Last(prog[b]), Last(prog[p]))
       /\ (op'.name = "add_before_end_block" /\ op'.noop) =>
            /\ prog'[op'.dest] = prog[op'.dest]
            /\ heap' = heap
      ]_vars

\* add_before_end has put a block with a target at its END into a program
\* that held an instruction already
C11_Witness ==
    /\ op.name = "add_before_end_block" /\ ~op.noop /\ ~aborted
    /\ op.pos >= 2
    /\ heap[prog[op.dest][op.pos]].target = Last(prog[op.dest])

\* C12: a program just constructed has size() 1 and is empty(), and empty()
\* holds of a program exactly when its only instruction is the END.
C12_Empty ==
    /\ op.name \in {"none", "construct"} =>
            \A p \in Progs : prog[p] # << >> => size(p) = 1 /\ empty(p)
    /\ \A p \in Progs :
        prog[p] # << >> =>
            (empty(p) <=> /\ Len(prog[p]) = 1
                          /\ prog[p][1] # NULL
                          /\ heap[prog[p][1]].code = ROSE_INSTR_END)

\* C20: no instruction is held by two programs or twice by one, and after a
\* splice the moved instructions are held by the destination alone.
C20_ExclusiveOwnership ==
    /\ [](\A i \in Ids :
            Cardinality({<<p, k>> \in Progs \X (1..MaxInstr) :
                            k <= Len(prog[p]) /\ prog[p][k] = i}) <= 1)
    /\ [][(op'.name \in Splices /\ ~op'.noop) =>
            LET moved == IF op'.name = "add_block"
                            THEN Range(prog[op'.block])
                            ELSE Range(Front(prog[op'.block]))
            IN \A i \in moved :
                /\ i \in Range(prog'[op'.dest])
                /\ i \notin Range(prog'[op'.block])
         ]_vars

\* a block of two instructions has been spliced into a program
C20_Witness ==
    /\ op.name \in Splices /\ ~op.noop /\ ~aborted
    /\ Len(prog[op.dest]) >= 3
    /\ prog[op.block] # << >>

\* ======================================================================
\* Properties of equivalence, hashing and assembly
\* ======================================================================
\* C13: RoseProgramEquivalence is reflexive, symmetric and transitive on the
\* programs the caller holds.
C13_EquivalenceRelation ==
    /\ \A p \in DOMAIN prog : RoseProgramEquivalence(p, p)
    /\ \A p \in DOMAIN prog : \A q \in DOMAIN prog :
        RoseProgramEquivalence(p, q) = RoseProgramEquivalence(q, p)
    /\ \A p \in DOMAIN prog : \A q \in DOMAIN prog : \A r \in DOMAIN prog :
        (RoseProgramEquivalence(p, q) /\ RoseProgramEquivalence(q, r))
            => RoseProgramEquivalence(p, r)

\* the caller has compared three programs with SPARSE_ITER_BEGIN of which the
\* first two are equivalent and the third, with a longer jump table, is not
C13_Witness ==
    /\ op.name = "equivalent_all"
    /\ op.ret[<<Dest, Block>>] /\ ~op.ret[<<Block, Third>>]
    /\ \A p \in Progs3 : heap[prog[p][1]].code = ROSE_INSTR_SPARSE_ITER_BEGIN
    /\ heap[prog[Dest][1]].jump_table = << >>
    /\ heap[prog[Third][1]].jump_table # << >>

\* C14: assembling a program never changes whether two programs are
\* equivalent: the answer is the same before any assembly, after one of the
\* two is assembled and after both are.
C14_EmissionState ==
    [][RoseProgramEquivalence(Dest, Block)' = RoseProgramEquivalence(Dest, Block)
      ]_vars

\* C15: two equivalent programs, each assembled against the blob as it is
\* now, give the same bytes and the same total length.
C15_RoundTrip ==
    (bytecode[Dest] = << >> /\ bytecode[Block] = << >>
        /\ RoseProgramEquivalence(Dest, Block)) =>
            /\ writeProgram(blob, Dest).bytes = writeProgram(blob, Block).bytes
            /\ total_len(prog[Dest]) = total_len(prog[Block])

\* sum of the byte lengths of s[1..k], each rounded up to the alignment
RECURSIVE AlignedSum(_, _)
AlignedSum(s, k) ==
    IF k = 0 THEN 0
    ELSE AlignedSum(s, k - 1)
            + ROUNDUP_N(byte_length(heap[s[k]].code), ROSE_INSTR_MIN_ALIGN)

\* C17: pass 1 places the records at multiples of ROSE_INSTR_MIN_ALIGN from 0
\* on, strictly increasing in program order without overlap, the END last;
\* the total length is the sum of the byte lengths each rounded up to the
\* alignment; in the bytes of an assembled program every record starts with
\* its opcode and every byte between two records and after the END's is zero.
C17_Layout ==
    \A p \in DOMAIN prog :
        LET s == prog[p]
            om == makeOffsetMap(p)
            len(k) == byte_length(heap[s[k]].code)
        IN /\ om[s[1]] = 0
           /\ \A k \in 1..Len(s) : om[s[k]] % ROSE_INSTR_MIN_ALIGN = 0
           /\ \A k \in 1..(Len(s) - 1) : om[s[k]] + len(k) <= om[s[k + 1]]
           /\ \A k \in 1..(Len(s) - 1) : om[s[k]] < om[Last(s)]
           /\ heap[Last(s)].code = ROSE_INSTR_END
           /\ total_len(s) = AlignedSum(s, Len(s))
           /\ bytecode[p] # << >> =>
                /\ Len(bytecode[p]) = total_len(s)
                /\ \A k \in 1..Len(s) :
                    /\ bytecode[p][om[s[k]] + 1] = heap[s[k]].code
                    /\ \A j \in (om[s[k]] + len(k) + 1)..
                                (IF k < Len(s) THEN om[s[k + 1]]
                                 ELSE total_len(s)) :
                            bytecode[p][j] = 0

\* a program whose second record needs padding has been assembled
C17_Witness ==
    /\ op.name = "write"
    /\ heap[prog[op.dest][2]].code = ROSE_INSTR_SPARSE_ITER_NEXT
    /\ Len(bytecode[op.dest]) > 0
    /\ makeOffsetMap(op.dest)[prog[op.dest][3]] >
        makeOffsetMap(op.dest)[prog[op.dest][2]]
            + byte_length(ROSE_INSTR_SPARSE_ITER_NEXT)

\* the u32 stored little-endian at byte offset off of bytes
U32At(bytes, off) ==
    bytes[off + 1] + 256 * bytes[off + 2] + 65536 * bytes[off + 3]
        + 16777216 * (bytes[off + 4] % 128)

\* C18: writing a program appends one iterator and one jump table to the blob
\* for each SPARSE_ITER_BEGIN and nothing for a SPARSE_ITER_NEXT, and the
\* record of every SPARSE_ITER_NEXT carries the iterator offset and the
\* jump-table offset its begin recorded.
C18_SparseIterSharing ==
    [][op'.name = "write" =>
        LET p == op'.dest
            begins == {i \in Members(p) :
                        heap[i].code = ROSE_INSTR_SPARSE_ITER_BEGIN}
            nexts == {i \in Members(p) :
                        heap[i].code = ROSE_INSTR_SPARSE_ITER_NEXT}
            added == {k \in (Len(blob) + 1)..Len(blob') : TRUE}
        IN /\ SubSeq(blob', 1, Len(blob)) = blob
           /\ Cardinality({k \in added : blob'[k].kind = "iter"})
                = Cardinality(begins)
           /\ Cardinality({k \in added : blob'[k].kind = "jump"})
                = Cardinality(begins)
           /\ Cardinality(added) = 2 * Cardinality(begins)
           /\ \A i \in begins :
                /\ heap'[i].is_written
                /\ \E k \in added : /\ blob'[k].kind = "iter"
                                    /\ blob'[k].off = heap'[i].iter_offset
                /\ \E k \in added : /\ blob'[k].kind = "jump"
                                    /\ blob'[k].off = heap'[i].jump_table_offset
           /\ \A i \in nexts :
                /\ U32At(bytecode'[p], makeOffsetMap(p)[i] + 4)
                    = heap'[heap[i].begin].iter_offset
                /\ U32At(bytecode'[p], makeOffsetMap(p)[i] + 8)
                    = heap'[heap[i].begin].jump_table_offset
      ]_vars

\* a SPARSE_ITER_BEGIN with its SPARSE_ITER_NEXT has been written to a blob
\* that held something already
C18_Witness ==
    /\ op.name = "write"
    /\ heap[prog[op.dest][1]].code = ROSE_INSTR_SPARSE_ITER_BEGIN
    /\ heap[prog[op.dest][2]].code = ROSE_INSTR_SPARSE_ITER_NEXT
    /\ heap[prog[op.dest][1]].is_written
    /\ heap[prog[op.dest][1]].iter_offset > 0
    /\ heap[prog[op.dest][1]].jump_table_offset
        > heap[prog[op.dest][1]].iter_offset

\* the instructions of the two programs agree, position by position, on
\* opcode and non-target fields
SamePayloads(p, q) ==
    /\ Len(prog[p]) = Len(prog[q])
    /\ \A k \in 1..Len(prog[p]) :
        SameNonTargetFields(heap[prog[p][k]], heap[prog[q][k]])

\* C19: RoseProgramHash depends on the sequence of opcodes and non-target
\* fields only: the value a call returned is the value of the program as
\* long as it is unchanged, and two programs built apart with the same
\* opcodes and payloads in the same order have the same hash.
C19_HashStability ==
    /\ op.name = "hash" => op.ret = RoseProgramHash(op.dest)
    /\ SamePayloads(Dest, Block) =>
            RoseProgramHash(Dest) = RoseProgramHash(Block)

\* the hash of a program has been taken whose twin has the same payloads and
\* a jump table that leads elsewhere
C19_Witness ==
    /\ op.name = "hash" /\ op.dest = Dest
    /\ SamePayloads(Dest, Block)
    /\ heap[prog[Dest][1]].code = ROSE_INSTR_SPARSE_ITER_BEGIN
    /\ heap[prog[Dest][1]].jump_table # << >>
    /\ IndexOf(prog[Dest], heap[prog[Dest][1]].jump_table[1][2]) #
       IndexOf(prog[Block], heap[prog[Block][1]].jump_table[1][2])

\* ======================================================================
\* Order, frames and typing in the container
\* ======================================================================
\* the elements of sequence s that are in set S, in the order s has them
RECURSIVE Restrict(_, _)
Restrict(s, S) ==
    IF s = << >> THEN << >>
    ELSE (IF s[1] \in S THEN <<s[1]>> ELSE << >>) \o Restrict(Tail(s), S)

\* t occurs in s as a run of adjacent elements
Contiguous(s, t) ==
    \E base \in 0..(Len(s) - Len(t)) : SubSeq(s, base + 1, base + Len(t)) = t

\* C21: every mutation keeps the instructions that were in the destination
\* and stay in it in the order they had; a splice puts the instructions it
\* takes from the block next to one another in the block's order; replace
\* moves nothing.
C21_OrderPreserved ==
    [][/\ \A p \in Progs :
            (Usable(p) /\ prog'[p] # << >> /\ op'.dest = p) =>
                Restrict(prog'[p], Members(p)) = Restrict(prog[p], Range(prog'[p]))
       /\ (op'.name \in Splices /\ ~op'.noop) =>
            LET taken == IF op'.name = "add_block" THEN prog[op'.block]
                         ELSE Front(prog[op'.block])
            IN /\ Contiguous(prog'[op'.dest], taken)
               /\ Restrict(prog'[op'.dest], Range(taken)) = taken
       /\ op'.name = "replace" =>
            /\ Len(prog'[op'.dest]) = Len(prog[op'.dest])
            /\ \A k \in 1..Len(prog[op'.dest]) :
                k # op'.pos => prog'[op'.dest][k] = prog[op'.dest][k]
      ]_vars

\* a block of two instructions and its END has been spliced in before the
\* END of the destination
C21_Witness ==
    /\ op.name = "insert_block" /\ ~op.noop /\ ~aborted
    /\ Len(prog[op.block]) = 2
    /\ Len(prog[op.dest]) = 3
    /\ prog[op.dest][3] = op.new

\* C22: update_target(old, new) on one instruction replaces every target
\* field equal to old by new and nothing else: an instruction without targets
\* is left as it was, a SPARSE_ITER_BEGIN has its fallback target and its
\* jump-table entries rewritten with keys and length kept, a SPARSE_ITER_NEXT
\* its target and its begin; every other instruction is untouched.
C22_UpdateTargetFrame ==
    [][op'.name = "update_target" =>
        LET id == prog[Dest][op'.pos]
            ri == heap[id]
            ro == heap'[id]
            old == op'.old
            new == op'.new
        IN /\ ro = Redirected(ri, old, new)
           /\ \A i \in DOMAIN heap : i # id => heap'[i] = heap[i]
           /\ prog' = prog
           /\ Targets(ri) = {} => ro = ri
           /\ old \notin Targets(ri) => ro = ri
           /\ ri.code = ROSE_INSTR_SPARSE_ITER_BEGIN =>
                /\ ro.target = (IF ri.target = old THEN new ELSE ri.target)
                /\ Len(ro.jump_table) = Len(ri.jump_table)
                /\ \A k \in 1..Len(ri.jump_table) :
                    /\ ro.jump_table[k][1] = ri.jump_table[k][1]
                    /\ ro.jump_table[k][2] =
                        (IF ri.jump_table[k][2] = old THEN new
                         ELSE ri.jump_table[k][2])
                /\ ro.num_keys = ri.num_keys
           /\ ri.code = ROSE_INSTR_SPARSE_ITER_NEXT =>
                /\ ro.target = (IF ri.target = old THEN new ELSE ri.target)
                /\ ro.begin = (IF ri.begin = old THEN new ELSE ri.begin)
                /\ ro.state = ri.state
      ]_vars

\* update_target has rewritten the jump-table entry of a SPARSE_ITER_BEGIN
\* and left alone its fallback target, which was not the old target
C22_Witness ==
    /\ op.name = "update_target" /\ ~aborted
    /\ heap[prog[Dest][op.pos]].code = ROSE_INSTR_SPARSE_ITER_BEGIN
    /\ heap[prog[Dest][op.pos]].jump_table # << >>
    /\ heap[prog[Dest][op.pos]].jump_table[1][2] = op.new
    /\ heap[prog[Dest][op.pos]].target # op.old
    /\ heap[prog[Dest][op.pos]].target # op.new

\* C27: a splice of a block that holds only its END changes nothing: the
\* destination keeps its instructions, its END and every target, the block is
\* still one END and is not consumed, and insert returns pos.
C27_EmptyBlockNoOp ==
    [][(op'.name \in Splices /\ Len(prog[op'.block]) = 1) =>
        /\ op'.noop
        /\ prog' = prog
        /\ heap' = heap
        /\ Last(prog'[op'.dest]) = Last(prog[op'.dest])
        /\ Len(prog'[op'.block]) = 1
        /\ heap'[prog'[op'.block][1]].code = ROSE_INSTR_END
        /\ op'.name = "insert_block" => op'.ret = op'.pos
      ]_vars

\* insert(pos, block) was called with an empty block on a program whose
\* first instruction targets its END
C27_Witness ==
    /\ op.name = "insert_block" /\ op.noop /\ ~aborted
    /\ Len(prog[op.block]) = 1
    /\ Len(prog[op.dest]) >= 2
    /\ Last(prog[op.dest]) \in Targets(heap[prog[op.dest][1]])
    /\ op.ret = op.pos

\* C24: in every program the mutators produce, each SPARSE_ITER_NEXT comes
\* after the SPARSE_ITER_BEGIN it refers to, so that the assembler, going
\* through the program in order, has written the begin before it writes the
\* next.
C24_BeginBeforeNext ==
    ~aborted =>
        \A p \in Progs : \A i \in Members(p) :
            heap[i].code = ROSE_INSTR_SPARSE_ITER_NEXT =>
                /\ heap[i].begin \in Members(p)
                /\ IndexOf(prog[p], heap[i].begin) < IndexOf(prog[p], i)

\* C28: the begin of every SPARSE_ITER_NEXT of a program refers to a
\* SPARSE_ITER_BEGIN; replace of a referenced SPARSE_ITER_BEGIN by an
\* instruction of another opcode leaves no SPARSE_ITER_NEXT that refers to
\* an instruction that is not a SPARSE_ITER_BEGIN.
C28_CompanionTyping ==
    \A p \in Progs : \A i \in Members(p) :
        heap[i].code = ROSE_INSTR_SPARSE_ITER_NEXT =>
            heap[heap[i].begin].code = ROSE_INSTR_SPARSE_ITER_BEGIN

\* the same, of the programs reached without a failed assert
C28_CompanionTypingAsserted == ~aborted => C28_CompanionTyping

AtEnd == {"insert_at_end", "insert_block_at_end"}

\* what holds of insert whatever the build: a call at end() fails the assert,
\* and a call elsewhere leaves what it inserted before the terminating END
C26_AcceptedInserts ==
    /\ op.name \in AtEnd => aborted
    /\ op.name \in {"insert", "insert_block"} =>
        /\ ~aborted
        /\ heap[Last(prog[op.dest])].code = ROSE_INSTR_END
        /\ op.name = "insert" => IndexOf(prog[op.dest], op.new) < Len(prog[op.dest])

\* C26: insert called with the end iterator fails an assert and never leaves
\* a program whose last instruction is not an END; every insert that is
\* accepted puts the new instructions before the terminating END.
C26_InsertAtEndRejected ==
    /\ C26_AcceptedInserts
    /\ op.name \in AtEnd => heap[Last(prog[op.dest])].code = ROSE_INSTR_END

C23_WitnessCounts ==
    /\ Usable(Dest) /\ Usable(Block) /\ ~aborted
    /\ Len(prog[Dest]) = 1 /\ Len(prog[Block]) = 2
    /\ heap[prog[Block][1]].code = ROSE_INSTR_END
    /\ ~RoseProgramEquivalence(Dest, Block)

\* ======================================================================
\* Fourth specification: instructions whose targets may lie outside their
\* program are compared; OffsetMap::at throws std::out_of_range for a key
\* the map does not hold
\* ======================================================================
missing(offsets, t) == t \notin DOMAIN offsets

\* RoseInstrCheckBounds::equiv_to reaches a lookup that throws: && goes on to
\* the lookups only when both bounds are equal
RoseInstrCheckBounds_throws(a, ri, offsets, other_offsets) ==
    /\ a.min_bound = ri.min_bound /\ a.max_bound = ri.max_bound
    /\ missing(offsets, a.target) \/ missing(other_offsets, ri.target)

\* the loop of RoseInstrSparseIterBegin::equiv_to from entry k on reaches a
\* lookup that throws
RECURSIVE jumps_throw(_, _, _, _, _)
jumps_throw(a, ri, offsets, other_offsets, k) ==
    IF k > Len(a.jump_table) THEN FALSE
    ELSE IF a.jump_table[k][1] # ri.jump_table[k][1] THEN FALSE
    ELSE IF missing(offsets, a.jump_table[k][2])
            \/ missing(other_offsets, ri.jump_table[k][2]) THEN TRUE
    ELSE IF offsets[a.jump_table[k][2]] # other_offsets[ri.jump_table[k][2]]
        THEN FALSE
    ELSE jumps_throw(a, ri, offsets, other_offsets, k + 1)

\* RoseInstrSparseIterBegin::equiv_to reaches a lookup that throws
RoseInstrSparseIterBegin_throws(a, ri, offsets, other_offsets) ==
    IF a.iter_offset # ri.iter_offset THEN FALSE
    ELSE IF missing(offsets, a.target) \/ missing(other_offsets, ri.target)
        THEN TRUE
    ELSE IF offsets[a.target] # other_offsets[ri.target] THEN FALSE
    ELSE IF Len(a.jump_table) # Len(ri.jump_table) THEN FALSE
    ELSE jumps_throw(a, ri, offsets, other_offsets, 1)

\* RoseInstrSparseIterNext::equiv_to reaches a lookup that throws
RoseInstrSparseIterNext_throws(a, ri, offsets, other_offsets) ==
    IF a.state # ri.state THEN FALSE
    ELSE IF missing(offsets, a.begin) \/ missing(other_offsets, ri.begin)
        THEN TRUE
    ELSE IF offsets[a.begin] # other_offsets[ri.begin] THEN FALSE
    ELSE missing(offsets, a.target) \/ missing(other_offsets, ri.target)

\* RoseInstrBase::equiv_impl: equiv_to is not called when the dynamic_cast
\* of `other` fails
equiv_throws(a, other, offsets, other_offsets) ==
    IF other.code # a.code THEN FALSE
    ELSE IF a.code = ROSE_INSTR_CHECK_BOUNDS
        THEN RoseInstrCheckBounds_throws(a, other, offsets, other_offsets)
    ELSE IF a.code = ROSE_INSTR_SPARSE_ITER_BEGIN
        THEN RoseInstrSparseIterBegin_throws(a, other, offsets, other_offsets)
    ELSE IF a.code = ROSE_INSTR_SPARSE_ITER_NEXT
        THEN RoseInstrSparseIterNext_throws(a, other, offsets, other_offsets)
    ELSE FALSE

\* how a call of RoseInstruction::equiv ends: std::out_of_range thrown, or
\* the boolean returned
equiv_outcome(a, other, offsets, other_offsets) ==
    IF equiv_throws(a, other, offsets, other_offsets)
        THEN [thrown |-> TRUE, ret |-> FALSE]
        ELSE [thrown |-> FALSE, ret |-> equiv(a, other, offsets, other_offsets)]

\* first instruction of a two-instruction program whose END is e, built by a
\* caller who also holds the instruction f of another program
DanglingInstrs(e, f) ==
    {RoseInstrReport(0, 0)}
    \cup {RoseInstrCheckBounds(v, 0, t) : v \in Keys, t \in {e, f}}
    \cup {RoseInstrSparseIterBegin(0, jt, t) :
            jt \in KeyedJumpTables({e, f}), t \in {e, f}}

InitDangling ==
    /\ prog = [p \in Progs |-> <<2 * p - 1, 2 * p>>]
    /\ \E x1 \in DanglingInstrs(2, 4), x2 \in DanglingInstrs(4, 2) :
            heap = <<x1, RoseInstrEnd, x2, RoseInstrEnd>>
    /\ aborted = FALSE
    /\ op = NoOp
    /\ blob = << >>
    /\ bytecode = [p \in Progs |-> << >>]

\* prog[Dest][i]->equiv(*prog[Block][j], offsets of Dest, offsets of Block)
EquivInstr ==
    \E i \in 1..Len(prog[Dest]), j \in 1..Len(prog[Block]) :
        /\ NotAssembling
        /\ ~aborted
        /\ op' = [Called("equiv", Dest, Block, i, prog[Dest][i],
                         prog[Block][j], FALSE)
                    EXCEPT !.ret = equiv_outcome(heap[prog[Dest][i]],
                                                 heap[prog[Block][j]],
                                                 makeOffsetMap(Dest),
                                                 makeOffsetMap(Block))]
        /\ UNCHANGED <<heap, prog, aborted>>

NextDangling == EquivInstr

SpecDangling == InitDangling /\ [][NextDangling]_vars

\* ri, an instruction of program p, has a target that is no instruction of p
Dangling(ri, p) == \E t \in Targets(ri) : t \notin Members(p)

\* what holds of equiv: a lookup of a dangling target that is reached throws
C25_ReachedLookupThrows ==
    op.name = "equiv" =>
        LET a == heap[op.old]
            b == heap[op.new]
        IN /\ op.ret.thrown => (Dangling(a, Dest) \/ Dangling(b, Block))
           /\ (a.code = b.code /\ SameNonTargetFields(a, b)
                /\ (a.target \notin Members(Dest)
                        \/ b.target \notin Members(Block))
                /\ Targets(a) # {}) => op.ret.thrown

\* C25: when a target of an instruction is no instruction of its program,
\* equiv ends in an error: no boolean is returned from a dangling target.
\* Stated of two instructions of the same opcode.
C25_DanglingFatal ==
    (op.name = "equiv" /\ heap[op.old].code = heap[op.new].code) =>
        ((Dangling(heap[op.old], Dest) \/ Dangling(heap[op.new], Block))
            => op.ret.thrown)

\* ======================================================================
\* Fifth specification: RoseInstrReportChain built from 64-bit distances
\* ======================================================================
ROSE_INSTR_REPORT_CHAIN == 24

\* mutant: the parameter is as wide as the member
as_u32_wide(v) == v

\* conversion of a 64-bit value to the u32 parameter it is passed for: the
\* low 32 bits, as two 16-bit limbs
as_u32(v) == <<v[1], v[2]>>

\* conversion of a u32 to u64a
as_u64a(v) == [i \in 1..4 |-> IF i <= Len(v) THEN v[i] ELSE 0]

\* RoseInstrReportChain(u32 event_in, u32 top_squash_distance_in)
RoseInstrReportChain(event_in, top_squash_distance_in) ==
    [code |-> ROSE_INSTR_REPORT_CHAIN, event |-> event_in,
     top_squash_distance |-> as_u64a(top_squash_distance_in)]

\* RoseInstrReportChain::operator==
RoseInstrReportChain_eq(a, ri) ==
    a.event = ri.event /\ a.top_squash_distance = ri.top_squash_distance

\* RoseInstrReportChain::hash
RoseInstrReportChain_hash(ri) ==
    hash_combine(hash_combine(U64(ri.code), U64(ri.event)),
                 ri.top_squash_distance)

\* RoseInstrReportChain::equiv_to
RoseInstrReportChain_equiv_to(a, ri, offsets, other_offsets) ==
    a.event = ri.event /\ a.top_squash_distance = ri.top_squash_distance

\* the 64-bit distances a caller holds, least significant limb first
Distances ==
    {<<a, b, c, d>> : a \in Keys, b \in {0, Limb - 1},
                      c \in Keys, d \in {0, Limb - 1}}

\* The caller holds, for each program, the event and the 64-bit distance it
\* is about to build a REPORT_CHAIN from.
InitChain ==
    /\ heap = [i \in Ids |-> IF i \in Progs THEN RoseInstrEnd ELSE Blank]
    /\ prog = [p \in Progs |-> <<p>>]
    /\ aborted = FALSE
    /\ \E in \in [Progs -> [event : Keys, distance : Distances]] :
            op = NoOp @@ [inputs |-> in]
    /\ blob = << >>
    /\ bytecode = [p \in Progs |-> << >>]

\* prog[p].add_before_end(make_unique<RoseInstrReportChain>(event, distance))
AddReportChain ==
    \E p \in Progs :
        /\ NotAssembling
        /\ ~aborted /\ Len(prog[p]) = 1 /\ FreeIds # {}
        /\ LET id == Alloc
               ri == RoseInstrReportChain(op.inputs[p].event,
                                          as_u32(op.inputs[p].distance))
           IN /\ heap' = [heap EXCEPT ![id] = ri]
              /\ prog' = [prog EXCEPT ![p] = InsertAt(@, prev_end(p), <<id>>)]
              /\ op' = [Called("report_chain", p, 0, prev_end(p), NULL, id, FALSE)
                            EXCEPT !.arg = ri] @@ [inputs |-> op.inputs]
        /\ UNCHANGED aborted

\* the two REPORT_CHAIN are compared with ==, hash() and equiv()
CompareChains ==
    /\ NotAssembling
    /\ ~aborted /\ Len(prog[Dest]) = 2 /\ Len(prog[Block]) = 2
    /\ LET a == heap[prog[Dest][1]]
           b == heap[prog[Block][1]]
       IN op' = [Called("compare_chain", Dest, Block, 1, prog[Dest][1],
                        prog[Block][1], FALSE)
                    EXCEPT !.ret =
                        [eq |-> RoseInstrReportChain_eq(a, b),
                         hash |-> RoseInstrReportChain_hash(a),
                         other_hash |-> RoseInstrReportChain_hash(b),
                         equiv |-> RoseInstrReportChain_equiv_to(
                                    a, b, makeOffsetMap(Dest),
                                    makeOffsetMap(Block))]]
                 @@ [inputs |-> op.inputs]
    /\ UNCHANGED <<heap, prog, aborted>>

NextChain == AddReportChain \/ CompareChains

SpecChain == InitChain /\ [][NextChain]_vars

\* C29: the top_squash_distance a REPORT_CHAIN stores is below 2^32 and is
\* the distance it was built from modulo 2^32; two REPORT_CHAIN built with the
\* same event from distances that agree modulo 2^32 are ==, hash alike and
\* are equiv.
C29_ReportChainRange ==
    /\ \A p \in Progs :
        Len(prog[p]) = 2 =>
            LET stored == heap[prog[p][1]].top_squash_distance
                given == op.inputs[p].distance
            IN /\ stored[3] = 0 /\ stored[4] = 0
               /\ stored[1] = given[1] /\ stored[2] = given[2]
    /\ op.name = "compare_chain" =>
        ((/\ op.inputs[Dest].event = op.inputs[Block].event
          /\ op.inputs[Dest].distance[1] = op.inputs[Block].distance[1]
          /\ op.inputs[Dest].distance[2] = op.inputs[Block].distance[2])
            => /\ op.ret.eq
               /\ op.ret.hash = op.ret.other_hash
               /\ op.ret.equiv)

\* two REPORT_CHAIN built from distances that differ above bit 31 only have
\* been compared
C29_Witness ==
    /\ op.name = "compare_chain"
    /\ op.inputs[Dest].distance # op.inputs[Block].distance
    /\ op.inputs[Dest].distance[2] = Limb - 1
    /\ op.inputs[Dest].distance[4] = Limb - 1
    /\ op.ret.eq /\ op.ret.equiv /\ op.ret.hash = op.ret.other_hash

\* ======================================================================
\* Sixth specification: the 128-bit bit operations of
\* src/util/arch/arm/simd_utils.h.  An m128 is its 16 bytes, the byte at the
\* lowest address first; heap[1] is the m128 the caller passes by pointer.
\* ======================================================================
RECURSIVE AndBits(_, _, _)
AndBits(x, y, n) ==
    IF n = 0 THEN 0
    ELSE ((x % 2) * (y % 2)) + 2 * AndBits(x \div 2, y \div 2, n - 1)

\* and of two bytes, tabulated
AndByte == [x \in 0..255 |-> [y \in 0..255 |-> AndBits(x, y, 8)]]

\* or of two bytes: x | y = (x ^ y) + (x & y)
OrByte == [x \in 0..255 |-> [y \in 0..255 |-> XorByte[x][y] + AndByte[x][y]]]

\* the LUT: 64 zero bytes, then for each bit of a byte 31 zero bytes, the
\* byte with that bit set and 32 zero bytes, then 64 zero bytes; indexed
\* from 0
simd_onebit_masks ==
    [i \in 0..639 |->
        IF i >= 64 /\ i < 576 /\ (i - 64) % 64 = 31 THEN 2 ^ ((i - 64) \div 64)
        ELSE 0]

zeroes128 == [j \in 1..16 |-> 0]

\* vld1q_s32 at &table[idx]
loadu128(table, idx) == [j \in 1..16 |-> table[idx + j - 1]]

and128(a, b) == [j \in 1..16 |-> AndByte[a[j]][b[j]]]

or128(a, b) == [j \in 1..16 |-> OrByte[a[j]][b[j]]]

\* vandq_s8(vmvnq_s8(a), b)
andnot128(a, b) == [j \in 1..16 |-> AndByte[255 - a[j]][b[j]]]

\* vceqq_s32 compares 32-bit lanes; vshrn_n_u16(.., 4) keeps bits 4..11 of
\* each 16-bit half of a lane; the 8 bytes that result are all 0xff exactly
\* when every lane is equal
diff128(a, b) ==
    LET vceqq(l) == IF \A j \in (4 * l - 3)..(4 * l) : a[j] = b[j]
                        THEN 65535 ELSE 0
        res == [h \in 1..8 |-> (vceqq((h + 1) \div 2) \div 16) % 256]
    IN IF res # [h \in 1..8 |-> 255] THEN 1 ELSE 0

isnonzero128(a) == diff128(a, zeroes128)

\* mutant: the byte index is added to mask_idx
mask1bit128_added(n) ==
    loadu128(simd_onebit_masks, ((n % 8) * 64) + 95 + (n \div 8))

mask1bit128(n) ==
    loadu128(simd_onebit_masks, ((n % 8) * 64) + 95 - (n \div 8))

setbit128(v, n) == or128(mask1bit128(n), v)

clearbit128(v, n) == andnot128(mask1bit128(n), v)

testbit128(val, n) == isnonzero128(and128(mask1bit128(n), val))

\* the vectors a caller holds: every byte the same, or bytes a stride apart
Vectors ==
    {[j \in 1..16 |-> (85 * k + 17 * stride * (j - 1)) % 256] :
        k \in 0..3, stride \in 0..MaxStride}

\* the caller holds a vector and the number n of a bit
InitBits ==
    /\ heap \in {<<v>> : v \in Vectors}
    /\ prog = [p \in Progs |-> << >>]
    /\ aborted = FALSE
    /\ \E n \in 0..127 : op = NoOp @@ [n |-> n]
    /\ blob = << >>
    /\ bytecode = [p \in Progs |-> << >>]

BitOp(name, ret) == [NoOp EXCEPT !.name = name, !.ret = ret] @@ [n |-> op.n]

\* setbit128(&v, n)
SetBit ==
    /\ heap' = [heap EXCEPT ![1] = setbit128(@, op.n)]
    /\ op' = BitOp("setbit128", NULL)
    /\ UNCHANGED <<prog, aborted, blob, bytecode>>

\* clearbit128(&v, n)
ClearBit ==
    /\ heap' = [heap EXCEPT ![1] = clearbit128(@, op.n)]
    /\ op' = BitOp("clearbit128", NULL)
    /\ UNCHANGED <<prog, aborted, blob, bytecode>>

\* testbit128(v, n)
TestBit ==
    /\ op' = BitOp("testbit128", testbit128(heap[1], op.n))
    /\ UNCHANGED <<heap, prog, aborted, blob, bytecode>>

NextBits == SetBit \/ ClearBit \/ TestBit

SpecBits == InitBits /\ [][NextBits]_vars

\* bit k of vector v: bit k % 8 of the byte k / 8
Bit(v, k) == (v[(k \div 8) + 1] \div (2 ^ (k % 8))) % 2

\* C30: mask1bit128(n) has bit n set and no other; after setbit128 bit n
\* tests non-zero, after clearbit128 it tests zero, either leaves every other
\* bit as it was, and doing either a second time changes nothing.
C30_BitOps ==
    /\ [](\A k \in 0..127 : Bit(mask1bit128(op.n), k) = (IF k = op.n THEN 1 ELSE 0))
    /\ [](op.name = "testbit128" => op.ret = Bit(heap[1], op.n))
    /\ [][/\ op'.name = "setbit128" =>
                /\ testbit128(heap'[1], op.n) # 0
                /\ Bit(heap'[1], op.n) = 1
                /\ \A k \in 0..127 : k # op.n => Bit(heap'[1], k) = Bit(heap[1], k)
                /\ setbit128(heap'[1], op.n) = heap'[1]
                /\ op.name = "setbit128" => heap' = heap
          /\ op'.name = "clearbit128" =>
                /\ testbit128(heap'[1], op.n) = 0
                /\ Bit(heap'[1], op.n) = 0
                /\ \A k \in 0..127 : k # op.n => Bit(heap'[1], k) = Bit(heap[1], k)
                /\ clearbit128(heap'[1], op.n) = heap'[1]
                /\ op.name = "clearbit128" => heap' = heap
         ]_vars

\* a bit of the last byte, with set bits around it, has been cleared
C30_Witness ==
    /\ op.name = "clearbit128"
    /\ op.n = 126
    /\ heap[1][16] = 191
    /\ heap[1][1] = 255
====
